---- MODULE Spec2Model ----
(***************************************************************************)
(* The Inner layout component of the viewer                                *)
(* (packages/core/src/layouts/Inner.tsx) as a state machine.               *)
(*                                                                         *)
(* State: the component's React state and refs, the render queue kept by   *)
(* useRenderQueue, and the part of the virtualizer (useVirtual) the        *)
(* component reads.  One action per handler or effect.  React runs an      *)
(* effect some time after the render whose dependencies changed, so each   *)
(* effect is an action of its own, guarded by a "pending" flag the         *)
(* handlers raise when they change one of its dependencies.                *)
(*                                                                         *)
(* The component relies on useRenderQueue, useVirtual, calculateScale and  *)
(* PageLayer, which live in other files of the package: the definitions    *)
(* that stand for them say so where they are introduced.                   *)
(*                                                                         *)
(* Scales are integers (1, 2 stand for two different zoom factors),        *)
(* visibilities are integers: -1 for a page of the overscan that is not    *)
(* on screen, 1..MaxVisibility for the visible fraction of a page.         *)
(* The viewport is as high as one page, so one page or two are on screen.  *)
(***************************************************************************)
EXTENDS Integers, Sequences, FiniteSets, TLC

VARIABLES
    numPages,             \* doc.numPages of the document shown now
    mountNumPages,        \* numPages captured by the useCallback(..., []) closures
    docId,                \* doc.loadingTask.docId
    currentPage,          \* useState(initialPage)
    rotation,             \* useState(0)
    pagesRotation,        \* useState(new Map()): a function on the pages that have an entry
    pagesRotationChanged, \* useState(false)
    currentScrollMode,    \* useState(scrollMode)
    scale,                \* useState(pageSize.scale)
    stateRef,             \* useRef(viewerState)
    keepSpecialZoomLevel, \* keepSpecialZoomLevelRef.current, "null" when none
    renderPageIndex,      \* useState(-1)
    renderQueueKey,       \* useState(0)
    renderQueue,          \* latestRef.current of useRenderQueue
    virtualizer,          \* what useVirtual returns: visible window and visibilities
    container,            \* size of the pages container (pagesRef.current)
    rangeEffectPending,   \* a dependency of the effect of lines 401-429 changed
    emitted,              \* callbacks and scroll commands issued by the latest step
    designated,           \* the page the latest step designated for rendering, and by whom
    rotateCalls,          \* history: per page, Forward and Backward rotatePage calls
    transforms,           \* history: zoom, resize and rotate events so far
    quiet,                \* user events have stopped (used by the liveness specification)
    plugins,              \* the plugins prop: a list of plugin objects
    pluginLog,            \* history: the install and uninstall calls made so far
    mounted,              \* the component is mounted
    isSmoothScrolling,    \* virtualizer.isSmoothScrolling
    destination           \* the jumpToDestination call whose page is loading, if any

vars == <<numPages, mountNumPages, docId, currentPage, rotation, pagesRotation,
          pagesRotationChanged, currentScrollMode, scale, stateRef,
          keepSpecialZoomLevel, renderPageIndex, renderQueueKey, renderQueue,
          virtualizer, container, rangeEffectPending, emitted, designated,
          rotateCalls, transforms, quiet, plugins, pluginLog, mounted,
          isSmoothScrolling, destination>>

\* What the plugins see of the component, and what navigation adds to the state.
pluginVars == <<plugins, pluginLog, mounted>>

navVars == <<isSmoothScrolling, destination>>

(***************************************************************************)
(* Bounds of the model and constants of the program.                       *)
(***************************************************************************)
NUM_OVERSCAN_PAGES == 3

OUT_OF_RANGE_VISIBILITY == -9999

\* Pages of the document the component is mounted with: the smallest document
\* in which a page can lie outside the render range while two pages are on screen.
NumPages == NUM_OVERSCAN_PAGES + 2

\* Pages of the largest document of the scenario about the render range: the
\* smallest document in which the range of a window of two pages is clamped
\* at neither end.
LargeNumPages == 2 * NUM_OVERSCAN_PAGES + 4

\* A browsing session has at most this many zoom, resize and rotate events.
MaxTransforms == 1

\* Visible fractions are 1..MaxVisibility.
MaxVisibility == 2

\* zoom is not called with a new scale once renderQueueKey has reached this.
MaxRenderQueueKey == 2

\* rotatePage is called at most this many times in all: enough for one page
\* to go past a full turn.
MaxRotatePageCalls == 5

\* Pages of the document of the page-rotation scenario.
SmallNumPages == 2

\* The document is replaced at most this many times.
MaxDocChanges == 2

\* The plugins prop has at most this many plugins.
MaxPlugins == 2

\* Width and height of the pages container range over 1..MaxContainer.
MaxContainer == 2

Forward == 1

Backward == -1

Directions == {Forward, Backward}

ScrollModes == {"Horizontal", "Vertical", "Wrapped"}

SpecialZoomLevels == {"ActualSize", "PageFit", "PageWidth"}

NumericScales == 1..MaxContainer

\* The argument of zoom, number | SpecialZoomLevel: typeof newScale === 'string'
\* is IsSpecial(newScale).
Numeric(n) == [special |-> "null", value |-> n]

Special(level) == [special |-> level, value |-> 0]

IsSpecial(newScale) == newScale.special # "null"

ZoomArguments ==
    {Numeric(n) : n \in NumericScales} \cup {Special(l) : l \in SpecialZoomLevels}

Pages == 0..(numPages - 1)

Max(a, b) == IF a >= b THEN a ELSE b

Min(a, b) == IF a <= b THEN a ELSE b

NoCall == << >>

Call(fn, a, b) == [fn |-> fn, a |-> a, b |-> b]

NoDesignation == [by |-> "none", page |-> -1]

(***************************************************************************)
(* useRenderQueue (hooks/useRenderQueue.ts, outside Inner.tsx).            *)
(* A queue is [currentRenderingPage, startRange, endRange, renderStatus,   *)
(* visibility], the last two functions on the pages.                       *)
(***************************************************************************)
InitialRenderQueue(n) ==
    [currentRenderingPage |-> -1,
     startRange |-> 0,
     endRange |-> n - 1,
     renderStatus |-> [i \in 0..(n - 1) |-> "NotRenderedYet"],
     visibility |-> [i \in 0..(n - 1) |-> OUT_OF_RANGE_VISIBILITY]]

markNotRendered(q) ==
    [q EXCEPT !.renderStatus = [i \in DOMAIN q.renderStatus |-> "NotRenderedYet"]]

markRendered(q, pageIndex) ==
    [q EXCEPT !.renderStatus[pageIndex] = "Rendered"]

markRendering(q, pageIndex) ==
    LET c == q.currentRenderingPage
        q1 == IF c # -1 /\ c # pageIndex /\ q.renderStatus[c] = "Rendering"
              THEN [q EXCEPT !.renderStatus[c] = "NotRenderedYet"]
              ELSE q
    IN  [q1 EXCEPT !.renderStatus[pageIndex] = "Rendering",
                   !.currentRenderingPage = pageIndex]

setRange(q, startIndex, endIndex) ==
    [q EXCEPT
        !.startRange = startIndex,
        !.endRange = endIndex,
        !.visibility = [i \in DOMAIN q.visibility |->
            IF i < startIndex \/ i > endIndex THEN OUT_OF_RANGE_VISIBILITY
            ELSE IF q.visibility[i] = OUT_OF_RANGE_VISIBILITY THEN -1
            ELSE q.visibility[i]],
        !.renderStatus = [i \in DOMAIN q.renderStatus |->
            IF i < startIndex \/ i > endIndex THEN "NotRenderedYet"
            ELSE q.renderStatus[i]]]

setVisibility(q, pageIndex, visibility) ==
    [q EXCEPT !.visibility[pageIndex] = visibility]

isInRange(q, pageIndex) ==
    pageIndex >= q.startRange /\ pageIndex <= q.endRange

\* The pages of the range that have a visibility, in page order.
VisiblePages(q) ==
    {i \in DOMAIN q.visibility :
        /\ i >= q.startRange /\ i <= q.endRange
        /\ q.visibility[i] > OUT_OF_RANGE_VISIBILITY}

\* The loop of getHighestPriorityPage keeps the first page of the biggest visibility.
MostVisibleNotRendered(q) ==
    LET cand == {i \in VisiblePages(q) : q.renderStatus[i] = "NotRenderedYet"}
    IN  IF cand = {} THEN -1
        ELSE CHOOSE i \in cand :
                \A j \in cand :
                    \/ q.visibility[j] < q.visibility[i]
                    \/ (q.visibility[j] = q.visibility[i] /\ i <= j)

getHighestPriorityPage(q) ==
    LET visiblePages == VisiblePages(q)
        n == Cardinality(DOMAIN q.visibility)
    IN  IF visiblePages = {} THEN -1
        ELSE IF \E i \in visiblePages : q.renderStatus[i] = "Rendering" THEN -1
        ELSE IF MostVisibleNotRendered(q) > -1 THEN MostVisibleNotRendered(q)
        ELSE LET firstVisiblePage == CHOOSE i \in visiblePages : \A j \in visiblePages : i <= j
                 lastVisiblePage == CHOOSE i \in visiblePages : \A j \in visiblePages : j <= i
             IN  IF lastVisiblePage + 1 < n
                    /\ q.renderStatus[lastVisiblePage + 1] # "Rendered"
                 THEN lastVisiblePage + 1
                 ELSE IF firstVisiblePage - 1 >= 0
                         /\ q.renderStatus[firstVisiblePage - 1] # "Rendered"
                      THEN firstVisiblePage - 1
                      ELSE -1

(***************************************************************************)
(* useVirtual (hooks/useVirtual.ts, outside Inner.tsx).  The component     *)
(* reads startRange, endRange, maxVisbilityIndex and virtualItems.  A      *)
(* virtualizer value is [startIndex, endIndex, visibility]: the first and  *)
(* last page on screen and the visible fraction of each page (-1 off       *)
(* screen).  The hook widens the window with the setStartRange and         *)
(* setEndRange callbacks the component passes (lines 126-130).             *)
(***************************************************************************)
setStartRange(startIndex) == Max(startIndex - NUM_OVERSCAN_PAGES, 0)

\* setEndRange clamping to numPages, one past the last page.
setEndRangeClampingToNumPages(endIndex, n) == Min(endIndex + NUM_OVERSCAN_PAGES, n)

setEndRange(endIndex, n) == Min(endIndex + NUM_OVERSCAN_PAGES, n - 1)

startRangeOf(v) == setStartRange(v.startIndex)

endRangeOf(v) == setEndRange(v.endIndex, Cardinality(DOMAIN v.visibility))

maxVisbilityIndexOf(v) ==
    CHOOSE i \in DOMAIN v.visibility :
        \A j \in DOMAIN v.visibility :
            \/ v.visibility[j] < v.visibility[i]
            \/ (v.visibility[j] = v.visibility[i] /\ i <= j)

\* virtualItems: one item per page of startRange..endRange, with its visibility.
VirtualItemIndexes(v) == startRangeOf(v)..endRangeOf(v)

\* The window at a scroll offset, the viewport being as high as a page and a
\* page MaxVisibility units high: at a multiple of MaxVisibility one page fills
\* the viewport, otherwise two pages share it.
PositionAt(n, offset) ==
    LET first == offset \div MaxVisibility
        below == offset % MaxVisibility
        last == IF below = 0 THEN first ELSE first + 1
    IN  [startIndex |-> first, endIndex |-> last,
         visibility |-> [i \in 0..(n - 1) |->
            IF i = first THEN MaxVisibility - below
            ELSE IF i = last THEN below
            ELSE -1]]

\* Every scroll position of a document of n pages.
Positions(n) == {PositionAt(n, offset) : offset \in 0..((n - 1) * MaxVisibility)}

TopPosition(n) == PositionAt(n, 0)

\* The dependencies of the range effect that come from the virtualizer.
RangeDeps(v) == <<startRangeOf(v), endRangeOf(v), maxVisbilityIndexOf(v)>>

(***************************************************************************)
(* calculateScale (layouts/calculateScale.ts, outside Inner.tsx): the      *)
(* scale a special zoom level gives in a container of the given size, the  *)
(* page being one unit wide and high.                                      *)
(***************************************************************************)
calculateScale(pagesEle, level) ==
    CASE level = "ActualSize" -> 1
      [] level = "PageFit" -> Min(pagesEle.w, pagesEle.h)
      [] level = "PageWidth" -> pagesEle.w

ContainerSizes == [w : 1..MaxContainer, h : 1..MaxContainer]

(***************************************************************************)
(* Plugins.  A plugin object tells whether it defines install and          *)
(* uninstall, and which onViewerStateChange hook it has: none, one that    *)
(* returns the state it is given, or one that moves the state's page.      *)
(***************************************************************************)
Hooks == {"none", "same", "firstPage", "nextPage"}

PluginObjects == [install : BOOLEAN, uninstall : BOOLEAN, onViewerStateChange : Hooks]

\* The plugins of the sessions that are not about plugins: their hooks leave
\* the viewer state alone.
DefaultPlugins ==
    <<[install |-> TRUE, uninstall |-> TRUE, onViewerStateChange |-> "same"],
      [install |-> FALSE, uninstall |-> FALSE, onViewerStateChange |-> "none"]>>

onViewerStateChange(plugin, viewerState) ==
    CASE plugin.onViewerStateChange = "firstPage" -> [viewerState EXCEPT !.pageIndex = 0]
      [] plugin.onViewerStateChange = "nextPage" -> [viewerState EXCEPT !.pageIndex = @ + 1]
      [] OTHER -> viewerState

\* The loop of lines 166-170 handing every hook the state setViewerState was
\* given instead of the previous hook's result.
RECURSIVE NotifyPluginsWithGivenState(_, _)
NotifyPluginsWithGivenState(ps, newState) ==
    IF ps = << >> THEN newState
    ELSE LET last == ps[Len(ps)]
             before == NotifyPluginsWithGivenState(SubSeq(ps, 1, Len(ps) - 1), newState)
         IN  IF last.onViewerStateChange # "none"
             THEN onViewerStateChange(last, newState)
             ELSE before

RECURSIVE NotifyPlugins(_, _)
NotifyPlugins(ps, newState) ==
    IF ps = << >> THEN newState
    ELSE NotifyPlugins(Tail(ps),
            IF Head(ps).onViewerStateChange # "none"
            THEN onViewerStateChange(Head(ps), newState)
            ELSE newState)

\* setViewerState (lines 163-172): the value stored in stateRef.current.
setViewerState(viewerState) == NotifyPlugins(plugins, viewerState)

\* The effect of lines 337-366 for the document docId: pluginMethods is made
\* anew by every run, so the run's docId stands for the object.
RECURSIVE PluginCalls(_, _, _, _)
PluginCalls(op, ps, i, functions) ==
    IF i > Len(ps) THEN << >>
    ELSE (IF ps[i][op] THEN <<[op |-> op, plugin |-> i, functions |-> functions]>> ELSE << >>)
         \o PluginCalls(op, ps, i + 1, functions)

InstallPlugins(ps, functions) == PluginCalls("install", ps, 1, functions)

UninstallPlugins(ps, functions) == PluginCalls("uninstall", ps, 1, functions)

\* A Map<number, number> is a function on its keys.
EmptyMap == [i \in {} |-> 0]

MapGet(m, k) == IF k \in DOMAIN m THEN m[k] ELSE 0

MapSet(m, k, x) == [i \in (DOMAIN m) \cup {k} |-> IF i = k THEN x ELSE m[i]]

(***************************************************************************)
(* The state after construction, before the first effects run.             *)
(***************************************************************************)
InitialViewerState ==
    [pageIndex |-> -1, rotation |-> 0, scale |-> 1, scrollMode |-> "Vertical",
     pagesRotation |-> EmptyMap, rotatedPage |-> -1]

\* The initialPage prop.
initialPage == 0

\* The effect of lines 387-398 without the test of isSmoothScrolling.
onPageChangeEffectWhileScrolling(page, viewerState, smoothScrolling) ==
    IF \/ (viewerState.pageIndex = -1 /\ page = initialPage)
       \/ (page = viewerState.pageIndex /\ page # initialPage)
    THEN <<Call("onPageChange", page, 0)>>
    ELSE NoCall

(***************************************************************************)
(* The effect of lines 387-398, in a render where the current page is      *)
(* page and the virtualizer's isSmoothScrolling is smoothScrolling: the     *)
(* calls it makes.  It runs in the commit of the first render and of every  *)
(* render in which currentPage or isSmoothScrolling has changed.           *)
(***************************************************************************)
onPageChangeEffect(page, viewerState, smoothScrolling) ==
    IF smoothScrolling THEN NoCall
    ELSE IF \/ (viewerState.pageIndex = -1 /\ page = initialPage)
            \/ (page = viewerState.pageIndex /\ page # initialPage)
         THEN <<Call("onPageChange", page, 0)>>
         ELSE NoCall

NoDestination == [pageIndex |-> -1]

\* Mounted with a document of n pages, the given defaultScale prop and the
\* plugins ps, in a container one page wide and high.  The effects of lines
\* 337-398 have run, the last of them reporting the initial page; the range
\* effect has not.
InitOf(n, defaultScale, ps) ==
    /\ plugins = ps
    /\ pluginLog = InstallPlugins(ps, 0)
    /\ mounted = TRUE
    /\ isSmoothScrolling = FALSE
    /\ destination = NoDestination
    /\ numPages = n
    /\ mountNumPages = n
    /\ docId = 0
    /\ currentPage = 0
    /\ rotation = 0
    /\ pagesRotation = EmptyMap
    /\ pagesRotationChanged = FALSE
    /\ currentScrollMode = "Vertical"
    /\ scale = 1
    /\ stateRef = InitialViewerState
    /\ keepSpecialZoomLevel = (IF IsSpecial(defaultScale) THEN defaultScale.special ELSE "null")
    /\ renderPageIndex = -1
    /\ renderQueueKey = 0
    /\ renderQueue = InitialRenderQueue(n)
    /\ virtualizer = TopPosition(n)
    /\ container = [w |-> 1, h |-> 1]
    /\ rangeEffectPending = TRUE
    /\ emitted = <<Call("onDocumentLoad", 0, 0)>>
                    \o onPageChangeEffect(initialPage, InitialViewerState, FALSE)
    /\ designated = NoDesignation
    /\ rotateCalls = [p \in 0..(n - 1) |-> [fwd |-> 0, bwd |-> 0]]
    /\ transforms = 0
    /\ quiet = FALSE

InitWith(n, defaultScale) == InitOf(n, defaultScale, DefaultPlugins)

Init == InitWith(NumPages, Numeric(1))

(***************************************************************************)
(* renderNextPage (lines 439-445), as a function of the queue and of       *)
(* renderPageIndex: the queue, the index and the designation it leaves.    *)
(***************************************************************************)
renderNextPage(q, rpi) ==
    CHOOSE r \in
        {IF nextPage > -1 /\ isInRange(q, nextPage)
         THEN [queue |-> markRendering(q, nextPage),
               renderPageIndex |-> nextPage,
               designated |-> [by |-> "renderNextPage", page |-> nextPage]]
         ELSE [queue |-> q, renderPageIndex |-> rpi, designated |-> NoDesignation] :
            nextPage \in {getHighestPriorityPage(q)}} : TRUE

\* The loop of lines 414-419: the visibility of every item of the range.
RECURSIVE SetVisibilities(_, _, _, _)
SetVisibilities(q, v, i, endRange) ==
    IF i > endRange THEN q
    ELSE SetVisibilities(
            IF i \in VirtualItemIndexes(v) THEN setVisibility(q, i, v.visibility[i]) ELSE q,
            v, i + 1, endRange)

\* The range effect storing the component's currentPage of the render it
\* belongs to in the viewer state, instead of the page it has just computed.
RangeEffectStoringStalePage ==
    /\ rangeEffectPending
    /\ \E startRange \in {startRangeOf(virtualizer)},
          endRange \in {endRangeOf(virtualizer)},
          maxVisbilityIndex \in {maxVisbilityIndexOf(virtualizer)} :
        \E q1 \in {setRange(renderQueue, startRange, endRange)} :
        \E q2 \in {SetVisibilities(q1, virtualizer, startRange, endRange)} :
        \E r \in {renderNextPage(q2, renderPageIndex)} :
           /\ currentPage' = maxVisbilityIndex
           /\ stateRef' = setViewerState([stateRef EXCEPT !.pageIndex = currentPage])
           /\ renderQueue' = r.queue
           /\ renderPageIndex' = r.renderPageIndex
           /\ designated' = r.designated
    /\ rangeEffectPending' = FALSE
    /\ emitted' = IF currentPage' # currentPage
                  THEN onPageChangeEffect(currentPage', stateRef', isSmoothScrolling)
                  ELSE NoCall
    /\ UNCHANGED <<pluginVars, navVars, numPages, mountNumPages, docId, rotation, pagesRotation,
                   pagesRotationChanged, currentScrollMode, scale,
                   keepSpecialZoomLevel, renderQueueKey, virtualizer, container,
                   rotateCalls, quiet>>

\* The range effect with its last two steps exchanged: the next page is
\* chosen before the items' visibilities are stored.
RangeEffectChoosingFirst ==
    /\ rangeEffectPending
    /\ \E startRange \in {startRangeOf(virtualizer)},
          endRange \in {endRangeOf(virtualizer)},
          maxVisbilityIndex \in {maxVisbilityIndexOf(virtualizer)} :
        \E q1 \in {setRange(renderQueue, startRange, endRange)} :
        \E r \in {renderNextPage(q1, renderPageIndex)} :
        \E q2 \in {SetVisibilities(r.queue, virtualizer, startRange, endRange)} :
           /\ currentPage' = maxVisbilityIndex
           /\ stateRef' = setViewerState([stateRef EXCEPT !.pageIndex = maxVisbilityIndex])
           /\ renderQueue' = q2
           /\ renderPageIndex' = r.renderPageIndex
           /\ designated' = r.designated
    /\ rangeEffectPending' = FALSE
    /\ emitted' = IF currentPage' # currentPage
                  THEN onPageChangeEffect(currentPage', stateRef', isSmoothScrolling)
                  ELSE NoCall
    /\ UNCHANGED <<pluginVars, navVars, numPages, mountNumPages, docId, rotation, pagesRotation,
                   pagesRotationChanged, currentScrollMode, scale,
                   keepSpecialZoomLevel, renderQueueKey, virtualizer, container,
                   rotateCalls, quiet>>

(***************************************************************************)
(* The effect of lines 401-429.  It runs after a render in which           *)
(* startRange, endRange, maxVisbilityIndex, pagesRotationChanged,          *)
(* rotation or scale changed, and once after mounting.  When it changes    *)
(* the current page, the render that follows runs the effect of lines      *)
(* 387-398.                                                                *)
(***************************************************************************)
RangeEffect ==
    /\ rangeEffectPending
    /\ \E startRange \in {startRangeOf(virtualizer)},
          endRange \in {endRangeOf(virtualizer)},
          maxVisbilityIndex \in {maxVisbilityIndexOf(virtualizer)} :
        \E q1 \in {setRange(renderQueue, startRange, endRange)} :
        \E q2 \in {SetVisibilities(q1, virtualizer, startRange, endRange)} :
        \E r \in {renderNextPage(q2, renderPageIndex)} :
           /\ currentPage' = maxVisbilityIndex
           /\ stateRef' = setViewerState([stateRef EXCEPT !.pageIndex = maxVisbilityIndex])
           /\ renderQueue' = r.queue
           /\ renderPageIndex' = r.renderPageIndex
           /\ designated' = r.designated
    /\ rangeEffectPending' = FALSE
    /\ emitted' = IF currentPage' # currentPage
                  THEN onPageChangeEffect(currentPage', stateRef', isSmoothScrolling)
                  ELSE NoCall
    /\ UNCHANGED <<pluginVars, navVars, numPages, mountNumPages, docId, rotation, pagesRotation,
                   pagesRotationChanged, currentScrollMode, scale,
                   keepSpecialZoomLevel, renderQueueKey, virtualizer, container,
                   rotateCalls, quiet>>

(***************************************************************************)
(* handlePageRenderCompleted (lines 431-437).  PageLayer calls it for      *)
(* page p; a page layer renders when shouldRender, that is when            *)
(* renderPageIndex is its page (line 520), and exists only for the         *)
(* virtual items.                                                          *)
(***************************************************************************)
handlePageRenderCompleted(pageIndex) ==
    /\ renderPageIndex = pageIndex
    /\ pageIndex \in VirtualItemIndexes(virtualizer)
    /\ \E q1 \in {markRendered(renderQueue, pageIndex)} :
        \E r \in {renderNextPage(q1, renderPageIndex)} :
           /\ renderQueue' = r.queue
           /\ renderPageIndex' = r.renderPageIndex
           /\ designated' = r.designated
    /\ emitted' = NoCall
    /\ UNCHANGED <<pluginVars, navVars, numPages, mountNumPages, docId, currentPage, rotation,
                   pagesRotation, pagesRotationChanged, currentScrollMode, scale,
                   stateRef, keepSpecialZoomLevel, renderQueueKey, virtualizer,
                   container, rangeEffectPending, rotateCalls, quiet>>

PageRenderCompleted == \E p \in Pages : handlePageRenderCompleted(p)

(***************************************************************************)
(* The user scrolls, or the layout changes the pages on screen: the        *)
(* virtualizer reports another window.                                     *)
(***************************************************************************)
Scroll ==
    /\ ~quiet
    /\ \E v \in Positions(numPages) :
        /\ v # virtualizer
        /\ virtualizer' = v
        /\ rangeEffectPending' =
              (rangeEffectPending \/ RangeDeps(v) # RangeDeps(virtualizer))
    /\ emitted' = NoCall
    /\ designated' = NoDesignation
    /\ UNCHANGED <<pluginVars, navVars, numPages, mountNumPages, docId, currentPage, rotation,
                   pagesRotation, pagesRotationChanged, currentScrollMode, scale,
                   stateRef, keepSpecialZoomLevel, renderPageIndex, renderQueueKey,
                   renderQueue, container, rotateCalls, quiet>>

(***************************************************************************)
(* The virtualizer starts and ends a smooth scroll (useVirtual, outside    *)
(* Inner.tsx): isSmoothScrolling changes, and the effect of lines 387-398  *)
(* runs in the render that follows.                                        *)
(***************************************************************************)
SmoothScrollStart ==
    /\ ~quiet
    /\ ~isSmoothScrolling
    /\ isSmoothScrolling' = TRUE
    /\ emitted' = onPageChangeEffect(currentPage, stateRef, TRUE)
    /\ designated' = NoDesignation
    /\ UNCHANGED <<pluginVars, destination, numPages, mountNumPages, docId,
                   currentPage, rotation, pagesRotation, pagesRotationChanged,
                   currentScrollMode, scale, stateRef, keepSpecialZoomLevel,
                   renderPageIndex, renderQueueKey, renderQueue, virtualizer,
                   container, rangeEffectPending, rotateCalls, quiet>>

SmoothScrollEnd ==
    /\ isSmoothScrolling
    /\ isSmoothScrolling' = FALSE
    /\ emitted' = onPageChangeEffect(currentPage, stateRef, FALSE)
    /\ designated' = NoDesignation
    /\ UNCHANGED <<pluginVars, destination, numPages, mountNumPages, docId,
                   currentPage, rotation, pagesRotation, pagesRotationChanged,
                   currentScrollMode, scale, stateRef, keepSpecialZoomLevel,
                   renderPageIndex, renderQueueKey, renderQueue, virtualizer,
                   container, rangeEffectPending, rotateCalls, quiet>>

(***************************************************************************)
(* zoom (lines 305-332) in a pages container of size pagesEle.  It leaves  *)
(* renderPageIndex to its caller.                                          *)
(***************************************************************************)
\* zoom without the early return of lines 314-318.
zoomWithoutEarlyReturn(pagesEle, newScale) ==
    LET updateScale == IF IsSpecial(newScale)
                       THEN calculateScale(pagesEle, newScale.special)
                       ELSE newScale.value
    IN  /\ keepSpecialZoomLevel' = IF IsSpecial(newScale) THEN newScale.special ELSE "null"
        /\ renderQueueKey < MaxRenderQueueKey
        /\ renderQueueKey' = renderQueueKey + 1
        /\ renderQueue' = markNotRendered(renderQueue)
        /\ scale' = updateScale
        /\ emitted' = <<Call("onZoom", updateScale, 0)>>
        /\ stateRef' = setViewerState([stateRef EXCEPT !.scale = updateScale])
        /\ rangeEffectPending' = TRUE

\* zoom without the markNotRendered of line 323.
zoomKeepingRenderStatus(pagesEle, newScale) ==
    LET updateScale == IF IsSpecial(newScale)
                       THEN calculateScale(pagesEle, newScale.special)
                       ELSE newScale.value
    IN  /\ keepSpecialZoomLevel' = IF IsSpecial(newScale) THEN newScale.special ELSE "null"
        /\ IF updateScale = stateRef.scale
           THEN /\ emitted' = NoCall
                /\ UNCHANGED <<renderQueueKey, renderQueue, scale, stateRef,
                               rangeEffectPending>>
           ELSE /\ renderQueueKey < MaxRenderQueueKey
                /\ renderQueueKey' = renderQueueKey + 1
                /\ renderQueue' = renderQueue
                /\ scale' = updateScale
                /\ emitted' = <<Call("onZoom", updateScale, 0)>>
                /\ stateRef' = setViewerState([stateRef EXCEPT !.scale = updateScale])
                /\ rangeEffectPending' = TRUE

UpdateScale(pagesEle, newScale) ==
    IF IsSpecial(newScale) THEN calculateScale(pagesEle, newScale.special)
    ELSE newScale.value

\* The calls zoom makes, and what it does to the state.
zoomCalls(pagesEle, newScale) ==
    LET updateScale == UpdateScale(pagesEle, newScale)
    IN  IF updateScale = stateRef.scale THEN NoCall
        ELSE <<Call("onZoom", updateScale, 0)>>

zoomUpdate(pagesEle, newScale) ==
    LET updateScale == UpdateScale(pagesEle, newScale)
    IN  /\ keepSpecialZoomLevel' = IF IsSpecial(newScale) THEN newScale.special ELSE "null"
        /\ IF updateScale = stateRef.scale
           THEN UNCHANGED <<renderQueueKey, renderQueue, scale, stateRef,
                            rangeEffectPending>>
           ELSE /\ renderQueueKey < MaxRenderQueueKey
                /\ renderQueueKey' = renderQueueKey + 1
                /\ renderQueue' = markNotRendered(renderQueue)
                /\ scale' = updateScale
                /\ stateRef' = setViewerState([stateRef EXCEPT !.scale = updateScale])
                /\ rangeEffectPending' = TRUE

zoom(pagesEle, newScale) ==
    /\ zoomUpdate(pagesEle, newScale)
    /\ emitted' = zoomCalls(pagesEle, newScale)

ZoomOf(newScale) ==
    /\ ~quiet
    /\ zoom(container, newScale)
    /\ designated' = NoDesignation
    /\ UNCHANGED <<pluginVars, navVars, numPages, mountNumPages, docId, currentPage, rotation,
                   pagesRotation, pagesRotationChanged, currentScrollMode,
                   renderPageIndex, virtualizer, container, rotateCalls, quiet>>

Zoom == \E newScale \in ZoomArguments : ZoomOf(newScale)

(***************************************************************************)
(* handlePagesResize (lines 144-150): the pages container takes another    *)
(* size and the debounced handler runs.                                    *)
(***************************************************************************)
handlePagesResize ==
    /\ ~quiet
    /\ \E size \in ContainerSizes :
        /\ size # container
        /\ container' = size
        /\ IF keepSpecialZoomLevel # "null"
           THEN /\ renderPageIndex' = -1
                /\ zoom(size, Special(keepSpecialZoomLevel))
           ELSE /\ emitted' = NoCall
                /\ UNCHANGED <<renderPageIndex, keepSpecialZoomLevel, renderQueueKey,
                               renderQueue, scale, stateRef, rangeEffectPending>>
    /\ designated' = NoDesignation
    /\ UNCHANGED <<pluginVars, navVars, numPages, mountNumPages, docId, currentPage, rotation,
                   pagesRotation, pagesRotationChanged, currentScrollMode,
                   virtualizer, rotateCalls, quiet>>

(***************************************************************************)
(* rotate (lines 260-273).                                                 *)
(***************************************************************************)
\* The rotation of lines 261-264 without the wrap at a full turn.
UpdateRotationWithoutWrap(currentRotation, direction) ==
    LET degrees == IF direction = Backward THEN -90 ELSE 90
    IN  currentRotation + degrees

\* The rotation of lines 261-264 where a full turn goes back to 0.
UpdateRotationWrappingToZero(currentRotation, direction) ==
    LET degrees == IF direction = Backward THEN -90 ELSE 90
    IN  IF currentRotation = 360 \/ currentRotation = -360
        THEN 0
        ELSE currentRotation + degrees

UpdateRotation(currentRotation, direction) ==
    LET degrees == IF direction = Backward THEN -90 ELSE 90
    IN  IF currentRotation = 360 \/ currentRotation = -360
        THEN degrees
        ELSE currentRotation + degrees

\* rotate without the setViewerState of lines 268-271.
rotateWithoutViewerState(direction) ==
    LET updateRotation == UpdateRotation(stateRef.rotation, direction)
    IN  /\ renderQueue' = markNotRendered(renderQueue)
        /\ rotation' = updateRotation
        /\ stateRef' = stateRef
        /\ emitted' = <<Call("onRotate", updateRotation, direction)>>
        /\ rangeEffectPending' = (rangeEffectPending \/ updateRotation # rotation)

rotate(direction) ==
    LET updateRotation == UpdateRotation(stateRef.rotation, direction)
    IN  /\ renderQueue' = markNotRendered(renderQueue)
        /\ rotation' = updateRotation
        /\ stateRef' = setViewerState([stateRef EXCEPT !.rotation = updateRotation])
        /\ emitted' = <<Call("onRotate", updateRotation, direction)>>
        /\ rangeEffectPending' = (rangeEffectPending \/ updateRotation # rotation)

RotateOf(direction) ==
    /\ ~quiet
    /\ rotate(direction)
    /\ designated' = NoDesignation
    /\ UNCHANGED <<pluginVars, navVars, numPages, mountNumPages, docId, currentPage, pagesRotation,
                   pagesRotationChanged, currentScrollMode, scale,
                   keepSpecialZoomLevel, renderPageIndex, renderQueueKey,
                   virtualizer, container, rotateCalls, quiet>>

Rotate == \E direction \in Directions : RotateOf(direction)

(***************************************************************************)
(* rotatePage (lines 275-295).  Map.set changes the map of the viewer      *)
(* state in place and returns it, so the component's pagesRotation and     *)
(* the viewer state's are the same map afterwards.                         *)
(***************************************************************************)
TotalRotateCalls ==
    LET RECURSIVE Sum(_)
        Sum(S) == IF S = {} THEN 0
                  ELSE LET p == CHOOSE x \in S : TRUE
                       IN  rotateCalls[p].fwd + rotateCalls[p].bwd + Sum(S \ {p})
    IN  Sum(DOMAIN rotateCalls)

\* rotatePage wrapping a page's rotation at a full turn, as rotate does.
rotatePageWrapping(pageIndex, direction) ==
    LET degrees == IF direction = Backward THEN -90 ELSE 90
        rotations == stateRef.pagesRotation
        currentPageRotation == MapGet(rotations, pageIndex)
        finalRotation == IF currentPageRotation = 360 \/ currentPageRotation = -360
                         THEN degrees
                         ELSE currentPageRotation + degrees
        updateRotations == MapSet(rotations, pageIndex, finalRotation)
    IN  /\ pagesRotation' = updateRotations
        /\ pagesRotationChanged' = ~pagesRotationChanged
        /\ stateRef' = setViewerState([stateRef EXCEPT !.pagesRotation = updateRotations,
                                                       !.rotatedPage = pageIndex])
        /\ emitted' = <<Call("onRotatePage", pageIndex, finalRotation)>>
        /\ renderQueue' = markRendering(renderQueue, pageIndex)
        /\ renderPageIndex' = pageIndex
        /\ designated' = [by |-> "rotatePage", page |-> pageIndex]
        /\ rangeEffectPending' = TRUE

rotatePage(pageIndex, direction) ==
    LET degrees == IF direction = Backward THEN -90 ELSE 90
        rotations == stateRef.pagesRotation
        currentPageRotation == MapGet(rotations, pageIndex)
        finalRotation == currentPageRotation + degrees
        updateRotations == MapSet(rotations, pageIndex, finalRotation)
    IN  /\ pagesRotation' = updateRotations
        /\ pagesRotationChanged' = ~pagesRotationChanged
        /\ stateRef' = setViewerState([stateRef EXCEPT !.pagesRotation = updateRotations,
                                                       !.rotatedPage = pageIndex])
        /\ emitted' = <<Call("onRotatePage", pageIndex, finalRotation)>>
        /\ renderQueue' = markRendering(renderQueue, pageIndex)
        /\ renderPageIndex' = pageIndex
        /\ designated' = [by |-> "rotatePage", page |-> pageIndex]
        /\ rangeEffectPending' = TRUE

RotatePageOf(pageIndex, direction) ==
    /\ ~quiet
    /\ TotalRotateCalls < MaxRotatePageCalls
    /\ rotatePage(pageIndex, direction)
    /\ rotateCalls' = [rotateCalls EXCEPT
          ![pageIndex] = IF direction = Forward
                         THEN [@ EXCEPT !.fwd = @ + 1]
                         ELSE [@ EXCEPT !.bwd = @ + 1]]
    /\ UNCHANGED <<pluginVars, navVars, numPages, mountNumPages, docId, currentPage, rotation,
                   currentScrollMode, scale, keepSpecialZoomLevel, renderQueueKey,
                   virtualizer, container, quiet>>

RotatePage ==
    \E pageIndex \in Pages, direction \in Directions : RotatePageOf(pageIndex, direction)

(***************************************************************************)
(* jumpToPage (lines 235-239).  The callback is created once               *)
(* (useCallback with no dependencies), so numPages is the page count of    *)
(* the document the component was mounted with.                            *)
(***************************************************************************)
jumpToPage(pageIndex) ==
    IF 0 <= pageIndex /\ pageIndex < mountNumPages
    THEN <<Call("scrollToItem", pageIndex, 0)>>
    ELSE NoCall

JumpToPageOf(pageIndex) ==
    /\ ~quiet
    /\ emitted' = jumpToPage(pageIndex)
    /\ designated' = NoDesignation
    /\ UNCHANGED <<pluginVars, navVars, numPages, mountNumPages, docId, currentPage, rotation,
                   pagesRotation, pagesRotationChanged, currentScrollMode, scale,
                   stateRef, keepSpecialZoomLevel, renderPageIndex, renderQueueKey,
                   renderQueue, virtualizer, container, rangeEffectPending,
                   rotateCalls, quiet>>

JumpTargets == -1..(NumPages + 1)

JumpToPage == \E pageIndex \in JumpTargets : JumpToPageOf(pageIndex)

(***************************************************************************)
(* jumpToDestination (lines 178-233).  The call (lines 185-191) reads      *)
(* stateRef.current and asks for the page; setViewerState stores a new     *)
(* object on every change, so currentState stays the state of the call.    *)
(* The page is one unit wide and high, and convertToViewportPoint of       *)
(* pdf.js gives (left, height - bottom) for it.                            *)
(***************************************************************************)
DestinationPages == 0..1

DestinationOffsets == 0..1

ScaleTos == {"undefined", "PageFit", "PageWidth"}

JumpToDestinationOf(pageIndex, bottomOffset, leftOffset, scaleTo) ==
    /\ ~quiet
    /\ mounted
    /\ destination = NoDestination
    /\ destination' = [pageIndex |-> pageIndex, bottomOffset |-> bottomOffset,
                       leftOffset |-> leftOffset, scaleTo |-> scaleTo,
                       currentState |-> stateRef]
    /\ emitted' = NoCall
    /\ designated' = NoDesignation
    /\ UNCHANGED <<pluginVars, isSmoothScrolling, numPages, mountNumPages, docId,
                   currentPage, rotation, pagesRotation, pagesRotationChanged,
                   currentScrollMode, scale, stateRef, keepSpecialZoomLevel,
                   renderPageIndex, renderQueueKey, renderQueue, virtualizer,
                   container, rangeEffectPending, rotateCalls, quiet>>

JumpToDestination ==
    \E pageIndex \in DestinationPages, bottomOffset \in DestinationOffsets,
       leftOffset \in DestinationOffsets, scaleTo \in ScaleTos :
        JumpToDestinationOf(pageIndex, bottomOffset, leftOffset, scaleTo)

\* scrollToItem(pageIndex, {left, top}) with one of the offsets 0, as all the
\* scrolls of the component are: to (0, 0), or along one axis.
scrollToItem(pageIndex, left, top) ==
    IF left # 0 THEN Call("scrollToItemLeft", pageIndex, left)
    ELSE IF top # 0 THEN Call("scrollToItemTop", pageIndex, top)
    ELSE Call("scrollToItem", pageIndex, 0)

\* The scroll of lines 221-229, along the axis of the scroll mode given.
scrollToDestination(pageIndex, scrollMode, left, top) ==
    IF scrollMode = "Horizontal"
    THEN <<scrollToItem(pageIndex, left, 0)>>
    ELSE <<scrollToItem(pageIndex, 0, top)>>

\* The offsets of lines 192-219 for a destination, at the scale given.
destinationLeft(d, atScale) ==
    CASE d.scaleTo = "PageFit" -> 0
      [] d.scaleTo = "PageWidth" -> d.leftOffset * atScale
      [] OTHER -> Max(d.leftOffset * atScale, 0)

destinationTop(d, atScale) ==
    CASE d.scaleTo = "PageFit" -> 0
      [] d.scaleTo = "PageWidth" -> (1 - d.bottomOffset) * atScale
      [] OTHER -> Max((1 - d.bottomOffset) * atScale, 0)

\* The page has loaded: the callback of lines 191-230.
PageLoaded ==
    /\ mounted
    /\ destination # NoDestination
    /\ \E d \in {destination} :
        \E currentState \in {d.currentState} :
        \E updateScale \in {IF d.scaleTo = "PageWidth"
                             THEN calculateScale(container, "PageWidth")
                             ELSE currentState.scale} :
           /\ CASE d.scaleTo = "PageFit" ->
                     /\ zoomUpdate(container, Special("PageFit"))
                     /\ emitted' = zoomCalls(container, Special("PageFit"))
                                     \o scrollToDestination(d.pageIndex, currentState.scrollMode,
                                            destinationLeft(d, updateScale),
                                            destinationTop(d, updateScale))
                [] d.scaleTo = "PageWidth" ->
                     /\ zoomUpdate(container, Numeric(updateScale))
                     /\ emitted' = zoomCalls(container, Numeric(updateScale))
                                     \o scrollToDestination(d.pageIndex, currentState.scrollMode,
                                            destinationLeft(d, updateScale),
                                            destinationTop(d, updateScale))
                [] OTHER ->
                     /\ emitted' = scrollToDestination(d.pageIndex, currentState.scrollMode,
                                        destinationLeft(d, updateScale),
                                        destinationTop(d, updateScale))
                     /\ UNCHANGED <<keepSpecialZoomLevel, renderQueueKey, renderQueue,
                                    scale, stateRef, rangeEffectPending>>
    /\ destination' = NoDestination
    /\ designated' = NoDesignation
    /\ UNCHANGED <<pluginVars, isSmoothScrolling, numPages, mountNumPages, docId,
                   currentPage, rotation, pagesRotation, pagesRotationChanged,
                   currentScrollMode, renderPageIndex, virtualizer, container,
                   rotateCalls, quiet>>

(***************************************************************************)
(* switchScrollMode (lines 297-303), with the layout effect of lines       *)
(* 380-385 that runs in the commit of the render it causes:                *)
(* previousScrollMode is the scroll mode of the render before.             *)
(***************************************************************************)
\* switchScrollMode whose layout effect scrolls whatever the previous mode was.
switchScrollModeAlwaysScrolling(scrollMode) ==
    LET newState == setViewerState([stateRef EXCEPT !.scrollMode = scrollMode])
        latestPage == newState.pageIndex
    IN  /\ stateRef' = newState
        /\ currentScrollMode' = scrollMode
        /\ emitted' = IF latestPage > -1
                      THEN <<Call("scrollToItem", latestPage, 0)>>
                      ELSE NoCall

switchScrollMode(scrollMode) ==
    LET previousScrollMode == currentScrollMode
        newState == setViewerState([stateRef EXCEPT !.scrollMode = scrollMode])
        latestPage == newState.pageIndex
    IN  /\ stateRef' = newState
        /\ currentScrollMode' = scrollMode
        /\ emitted' = IF latestPage > -1 /\ previousScrollMode # scrollMode
                      THEN <<Call("scrollToItem", latestPage, 0)>>
                      ELSE NoCall

SwitchScrollModeOf(scrollMode) ==
    /\ ~quiet
    /\ switchScrollMode(scrollMode)
    /\ designated' = NoDesignation
    /\ UNCHANGED <<pluginVars, navVars, numPages, mountNumPages, docId, currentPage, rotation,
                   pagesRotation, pagesRotationChanged, scale,
                   keepSpecialZoomLevel, renderPageIndex, renderQueueKey,
                   renderQueue, virtualizer, container, rangeEffectPending,
                   rotateCalls, quiet>>

SwitchScrollMode == \E scrollMode \in ScrollModes : SwitchScrollModeOf(scrollMode)

(***************************************************************************)
(* The parent passes another document: doc, numPages and docId change      *)
(* while the component stays mounted.  The effects of lines 337-377 run    *)
(* again (initialPage is 0, so line 375 does not jump); the callbacks      *)
(* made with useCallback(..., []) are those of the first render.  The new  *)
(* document is shown from its top.                                         *)
(***************************************************************************)
\* The document change whose new effect runs before the cleanup of the old one.
DocChangeInstallingFirst ==
    /\ ~quiet
    /\ mounted
    /\ docId < MaxDocChanges
    /\ \E n \in 1..(NumPages + 1) :
        /\ n # numPages
        /\ numPages' = n
        /\ virtualizer' = TopPosition(n)
    /\ docId' = docId + 1
    /\ pluginLog' = pluginLog \o InstallPlugins(plugins, docId + 1)
                              \o UninstallPlugins(plugins, docId)
    /\ rangeEffectPending' = TRUE
    /\ emitted' = <<Call("onDocumentLoad", docId + 1, 0)>>
    /\ designated' = NoDesignation
    /\ UNCHANGED <<plugins, mounted, navVars, mountNumPages, currentPage, rotation, pagesRotation,
                   pagesRotationChanged, currentScrollMode, scale, stateRef,
                   keepSpecialZoomLevel, renderPageIndex, renderQueueKey,
                   renderQueue, container, rotateCalls, quiet>>

DocChange ==
    /\ ~quiet
    /\ mounted
    /\ docId < MaxDocChanges
    /\ \E n \in 1..(NumPages + 1) :
        /\ n # numPages
        /\ numPages' = n
        /\ virtualizer' = TopPosition(n)
    /\ docId' = docId + 1
    /\ pluginLog' = pluginLog \o UninstallPlugins(plugins, docId)
                              \o InstallPlugins(plugins, docId + 1)
    /\ rangeEffectPending' = TRUE
    /\ emitted' = <<Call("onDocumentLoad", docId + 1, 0)>>
    /\ designated' = NoDesignation
    /\ UNCHANGED <<plugins, mounted, navVars, mountNumPages, currentPage, rotation, pagesRotation,
                   pagesRotationChanged, currentScrollMode, scale, stateRef,
                   keepSpecialZoomLevel, renderPageIndex, renderQueueKey,
                   renderQueue, container, rotateCalls, quiet>>

(***************************************************************************)
(* The component unmounts: the cleanup of the effect of lines 337-366      *)
(* runs (lines 358-365).                                                   *)
(***************************************************************************)
Unmount ==
    /\ mounted
    /\ mounted' = FALSE
    /\ pluginLog' = pluginLog \o UninstallPlugins(plugins, docId)
    /\ emitted' = NoCall
    /\ designated' = NoDesignation
    /\ UNCHANGED <<plugins, navVars, numPages, mountNumPages, docId, currentPage,
                   rotation, pagesRotation, pagesRotationChanged, currentScrollMode,
                   scale, stateRef, keepSpecialZoomLevel, renderPageIndex,
                   renderQueueKey, renderQueue, virtualizer, container,
                   rangeEffectPending, rotateCalls, quiet>>

(***************************************************************************)
(* A plugin calls the setViewerState and getViewerState it was installed   *)
(* with (lines 163-176), here with the state it read and another page.     *)
(***************************************************************************)
getViewerState == stateRef

PluginPages == -1..1

SetViewerStateOf(viewerState) ==
    /\ ~quiet
    /\ mounted
    /\ stateRef' = setViewerState(viewerState)
    /\ emitted' = NoCall
    /\ designated' = NoDesignation
    /\ UNCHANGED <<pluginVars, navVars, numPages, mountNumPages, docId, currentPage,
                   rotation, pagesRotation, pagesRotationChanged, currentScrollMode,
                   scale, keepSpecialZoomLevel, renderPageIndex, renderQueueKey,
                   renderQueue, virtualizer, container, rangeEffectPending,
                   rotateCalls, quiet>>

SetViewerState ==
    \E pageIndex \in PluginPages :
        SetViewerStateOf([getViewerState EXCEPT !.pageIndex = pageIndex])

\* No further user event: from here on only effects and page renders run.
Quiesce ==
    /\ ~quiet
    /\ quiet' = TRUE
    /\ emitted' = NoCall
    /\ designated' = NoDesignation
    /\ UNCHANGED <<pluginVars, navVars, numPages, mountNumPages, docId, currentPage, rotation,
                   pagesRotation, pagesRotationChanged, currentScrollMode, scale,
                   stateRef, keepSpecialZoomLevel, renderPageIndex, renderQueueKey,
                   renderQueue, virtualizer, container, rangeEffectPending,
                   rotateCalls>>

(***************************************************************************)
(* Specifications.  A step of the component leaves the history counter of  *)
(* the session alone; a browsing session counts its transformations.       *)
(***************************************************************************)
Step(A) == A /\ UNCHANGED transforms

Transformation ==
    /\ transforms < MaxTransforms
    /\ transforms' = transforms + 1
    /\ \/ Zoom
       \/ handlePagesResize
       \/ Rotate
       \/ RotatePage

\* A browsing session: the user scrolls, pages render, and now and then the
\* view is zoomed, resized or rotated.
Next ==
    \/ Step(RangeEffect)
    \/ Step(PageRenderCompleted)
    \/ Step(Scroll)
    \/ Transformation

Spec == Init /\ [][Next]_vars

\* The same session opened at the page-width zoom level, until the user stops;
\* effects run, and the page layer that is asked to render reports completion.
NextLive == Next \/ Step(Quiesce)

Fairness ==
    /\ WF_vars(Step(RangeEffect))
    /\ \A p \in 0..(NumPages - 1) : WF_vars(Step(handlePageRenderCompleted(p)))

SpecLive == InitWith(NumPages, Special("PageWidth")) /\ [][NextLive]_vars /\ Fairness

\* The view is transformed at will while the first pages stay on screen.
NextView ==
    \/ Step(RangeEffect)
    \/ Step(PageRenderCompleted)
    \/ Step(Zoom)
    \/ Step(handlePagesResize)
    \/ Step(Rotate)
    \/ Step(SwitchScrollMode)

SpecView == Init /\ [][NextView]_vars

\* The pages of a short document are rotated one by one, the view being
\* zoomed, resized or rotated now and then.
NextRotatePage ==
    \/ Step(RangeEffect)
    \/ Step(PageRenderCompleted)
    \/ Step(RotatePage)
    \/ Transformation

SpecRotatePage == InitWith(SmallNumPages, Numeric(1)) /\ [][NextRotatePage]_vars

\* Navigation while the parent replaces the document.
NextDoc ==
    \/ Step(DocChange)
    \/ Step(JumpToPage)
    \/ Step(Scroll)

SpecDoc == Init /\ [][NextDoc]_vars

\* The user scrolls through the document, the virtualizer scrolling smoothly
\* at times, while pages render.
NextNavigate ==
    \/ Step(RangeEffect)
    \/ Step(PageRenderCompleted)
    \/ Step(Scroll)
    \/ Step(SmoothScrollStart)
    \/ Step(SmoothScrollEnd)

SpecNavigate == Init /\ [][NextNavigate]_vars

\* Jumps to destinations while the view is zoomed and its scroll mode switched.
NextDestination ==
    \/ Step(JumpToDestination)
    \/ Step(PageLoaded)
    \/ Step(Zoom)
    \/ Step(SwitchScrollMode)
    \/ Step(RangeEffect)

SpecDestination == Init /\ [][NextDestination]_vars

\* The lists of at most MaxPlugins plugin objects.
PluginLists ==
    UNION {[1..n -> PluginObjects] : n \in 0..MaxPlugins}

\* A session with any plugins: they set the viewer state while pages come on
\* screen, the parent replaces the document, and the component unmounts.
NextPlugins ==
    \/ Step(RangeEffect)
    \/ Step(SetViewerState)
    \/ Step(DocChange)
    \/ Step(Unmount)

SpecPlugins ==
    /\ \E ps \in PluginLists : InitOf(NumPages, Numeric(1), ps)
    /\ [][NextPlugins]_vars

\* Documents of every size up to LargeNumPages are scrolled through, the
\* range effect running after the window changes.
NextRange ==
    \/ Step(RangeEffect)
    \/ Step(Scroll)

SpecRange ==
    /\ \E n \in 1..LargeNumPages : InitWith(n, Numeric(1))
    /\ [][NextRange]_vars

(***************************************************************************)
(* Properties.                                                             *)
(***************************************************************************)
RenderStatusOf(p) == renderQueue.renderStatus[p]

\* The pages on screen: items of the render range with a positive visibility.
PagesOnScreen ==
    {p \in Pages : p \in VirtualItemIndexes(virtualizer) /\ virtualizer.visibility[p] > 0}

AllVisibleRendered == \A p \in PagesOnScreen : RenderStatusOf(p) = "Rendered"

C2_RenderedOnlyFromRendering ==
    [][\A p \in DOMAIN renderQueue.renderStatus :
          (renderQueue'.renderStatus[p] = "Rendered" /\ RenderStatusOf(p) # "Rendered")
              => RenderStatusOf(p) = "Rendering"]_vars

\* C3 (priority choice): when a step's renderNextPage designates page p, p was
\* not rendered before the step and is the rendering page after it, p has a
\* visibility given by the range effect, and no other not-yet-rendered page of
\* the queue's range [startRange, endRange] has a strictly greater visibility.
C3_PriorityChoice ==
    [][designated'.by = "renderNextPage" =>
          LET p == designated'.page
              q == renderQueue'
          IN  /\ RenderStatusOf(p) = "NotRenderedYet"
              /\ q.renderStatus[p] = "Rendering"
              /\ renderPageIndex' = p
              /\ q.visibility[p] # OUT_OF_RANGE_VISIBILITY
              /\ \A j \in q.startRange..q.endRange :
                    q.renderStatus[j] = "NotRenderedYet"
                        => q.visibility[j] <= q.visibility[p]]_vars

\* renderNextPage has passed over an earlier page that is not rendered and
\* less visible, and designated a later one.
C3_Witness ==
    /\ designated.by = "renderNextPage"
    /\ \E j \in renderQueue.startRange..renderQueue.endRange :
        /\ j < designated.page
        /\ RenderStatusOf(j) = "NotRenderedYet"
        /\ renderQueue.visibility[j] < renderQueue.visibility[designated.page]

\* C4 (only pages near the viewport are rendered): a page designated for
\* rendering, by renderNextPage or by rotatePage, lies inside the render range
\* [startRange, endRange] at that moment.
C4_DesignatedInRange ==
    designated.by # "none" =>
        /\ renderPageIndex = designated.page
        /\ isInRange(renderQueue, designated.page)

\* C5 (jumpToPage): jumpToPage(i) scrolls to page i if and only if
\* 0 <= i < the number of pages of the document shown now, and issues nothing
\* for any other i, also after the document has been replaced.
C5_JumpToPage ==
    [][\A i \in JumpTargets :
          JumpToPageOf(i) =>
              emitted' = IF 0 <= i /\ i < numPages
                         THEN <<Call("scrollToItem", i, 0)>>
                         ELSE NoCall]_vars

QuarterTurns == {90 * k : k \in -4..4}

\* C6 (rotation range): from rotation 0, and the plugins leaving the rotation
\* alone, after any sequence of rotate calls the document rotation, in the
\* component state and in the viewer state, is a multiple of 90 in [-360, 360].
C6_RotationRange ==
    /\ rotation \in QuarterTurns
    /\ stateRef.rotation \in QuarterTurns

\* Rotating backward has reached the lower end of the range.
C6_Witness == rotation = -360 /\ emitted = <<Call("onRotate", -360, Backward)>>

\* C7 (quarter turn): each rotate(direction) makes the rotation congruent
\* modulo 360 to the previous rotation plus 90 (Forward) or minus 90
\* (Backward), from 360 and -360 too, and calls onRotate once with it.
C7_QuarterTurn ==
    [][\A direction \in Directions :
          RotateOf(direction) =>
              /\ (stateRef'.rotation - (stateRef.rotation + 90 * direction)) % 360 = 0
              /\ rotation' = stateRef'.rotation
              /\ emitted' = <<Call("onRotate", stateRef'.rotation, direction)>>]_vars

\* Rotating forward has reached the full turn, from where the next call wraps.
C7_Witness == rotation = 360 /\ emitted = <<Call("onRotate", 360, Forward)>>

\* C8 (zoom to the scale in effect): when the scale zoom computes is the viewer
\* state's scale, onZoom is not called, no render status is reset, and
\* renderQueueKey, scale and the viewer state are unchanged; the remembered
\* special zoom level is all that may change.
C8_ZoomSameScale ==
    [][\A newScale \in ZoomArguments :
          (ZoomOf(newScale) /\ UpdateScale(container, newScale) = stateRef.scale) =>
              /\ emitted' = NoCall
              /\ renderQueue' = renderQueue
              /\ renderQueueKey' = renderQueueKey
              /\ scale' = scale
              /\ stateRef' = stateRef
              /\ renderPageIndex' = renderPageIndex
              /\ rangeEffectPending' = rangeEffectPending]_vars

\* zoom("PageFit") was called while PageFit gave the scale in effect, with a
\* page already rendered: the level is remembered and nothing else moved.
C8_Witness ==
    /\ keepSpecialZoomLevel = "PageFit"
    /\ renderQueueKey = 0
    /\ emitted = NoCall
    /\ \E p \in Pages : RenderStatusOf(p) = "Rendered"

\* C9 (zoom to another scale): every page becomes not-rendered, renderQueueKey
\* grows by one, the component scale and the viewer state's scale are the new
\* scale, onZoom is called once with it, and rotation, per-page rotations and
\* scroll mode are unchanged.
C9_ZoomNewScale ==
    [][\A newScale \in ZoomArguments :
          (ZoomOf(newScale) /\ UpdateScale(container, newScale) # stateRef.scale) =>
              LET updateScale == UpdateScale(container, newScale)
              IN  /\ \A p \in DOMAIN renderQueue.renderStatus :
                        renderQueue'.renderStatus[p] = "NotRenderedYet"
                  /\ renderQueueKey' = renderQueueKey + 1
                  /\ scale' = updateScale
                  /\ stateRef'.scale = updateScale
                  /\ emitted' = <<Call("onZoom", updateScale, 0)>>
                  /\ rotation' = rotation
                  /\ stateRef'.rotation = stateRef.rotation
                  /\ pagesRotation' = pagesRotation
                  /\ stateRef'.pagesRotation = stateRef.pagesRotation
                  /\ currentScrollMode' = currentScrollMode
                  /\ stateRef'.scrollMode = stateRef.scrollMode]_vars

\* A rotated view in wrapped mode has just been zoomed to scale 2.
C9_Witness ==
    /\ emitted = <<Call("onZoom", 2, 0)>>
    /\ scale = 2
    /\ rotation = 90
    /\ currentScrollMode = "Wrapped"
    /\ \A p \in Pages : RenderStatusOf(p) = "NotRenderedYet"

\* The rotation of a page is 90 times its Forward calls minus its Backward
\* calls, in the component state and in the viewer state.
PageRotationsMatchCalls ==
    \A p \in DOMAIN rotateCalls :
        /\ MapGet(stateRef.pagesRotation, p) = 90 * (rotateCalls[p].fwd - rotateCalls[p].bwd)
        /\ MapGet(pagesRotation, p) = 90 * (rotateCalls[p].fwd - rotateCalls[p].bwd)

\* A rotatePage(p, direction) step leaves the other pages' rotations, the
\* document rotation and the scale alone and reports p's new rotation.
RotatePageFrame ==
    \A p \in Pages, direction \in Directions :
        RotatePageOf(p, direction) =>
            /\ \A o \in Pages \ {p} :
                  MapGet(stateRef'.pagesRotation, o) = MapGet(stateRef.pagesRotation, o)
            /\ rotation' = rotation
            /\ stateRef'.rotation = stateRef.rotation
            /\ scale' = scale
            /\ stateRef'.scale = stateRef.scale
            /\ emitted' = <<Call("onRotatePage", p, MapGet(stateRef'.pagesRotation, p))>>

\* C10 (rotatePage): after any sequence of rotatePage calls the rotation of
\* each page is 90 times (its Forward calls minus its Backward calls), with no
\* wrap-around, a page never rotated reading as 0; a call changes page p's
\* rotation only, leaves the document rotation and the scale alone, and
\* onRotatePage reports the page's new rotation.
C10_RotatePage == [](PageRotationsMatchCalls) /\ [][RotatePageFrame]_vars

\* A page has been rotated forward past the full turn while another page was
\* never rotated.
C10_Witness ==
    \E p \in Pages :
        /\ rotateCalls[p].fwd = MaxRotatePageCalls
        /\ MapGet(stateRef.pagesRotation, p) = 90 * MaxRotatePageCalls
        /\ emitted = <<Call("onRotatePage", p, 90 * MaxRotatePageCalls)>>

\* C11 (switchScrollMode): after switchScrollMode(m) the viewer state's
\* scrollMode and the component's scroll mode are m; when m differs from the
\* mode in effect and the viewer state's pageIndex is > -1 the view is scrolled
\* to that page at offset (0, 0), and switching to the mode in effect scrolls
\* nothing; scale and rotation are unchanged in both cases.
C11_SwitchScrollMode ==
    [][\A m \in ScrollModes :
          SwitchScrollModeOf(m) =>
              /\ stateRef'.scrollMode = m
              /\ currentScrollMode' = m
              /\ emitted' = IF m # currentScrollMode /\ stateRef.pageIndex > -1
                            THEN <<Call("scrollToItem", stateRef.pageIndex, 0)>>
                            ELSE NoCall
              /\ scale' = scale
              /\ stateRef'.scale = stateRef.scale
              /\ rotation' = rotation
              /\ stateRef'.rotation = stateRef.rotation]_vars

\* A zoomed and rotated view has just been switched to the wrapped mode and
\* scrolled to its current page.
C11_Witness ==
    /\ currentScrollMode = "Wrapped"
    /\ stateRef.scrollMode = "Wrapped"
    /\ stateRef.pageIndex > -1
    /\ emitted = <<Call("scrollToItem", stateRef.pageIndex, 0)>>
    /\ scale = 2
    /\ rotation = 90

\* The calls of one kind made with the functions object of document d, and
\* the calls made to plugin i, in the order they were made.
PluginCallsWith(op, d) ==
    SelectSeq(pluginLog, LAMBDA e : e.op = op /\ e.functions = d)

PluginCallsTo(i) == SelectSeq(pluginLog, LAMBDA e : e.plugin = i)

PluginsDefining(op) == {i \in 1..Len(plugins) : plugins[i][op]}

\* calls reaches every plugin of S exactly once, in plugin-list order.
OnceInListOrder(calls, S) ==
    /\ Len(calls) = Cardinality(S)
    /\ {calls[k].plugin : k \in DOMAIN calls} = S
    /\ \A k, l \in DOMAIN calls : k < l => calls[k].plugin < calls[l].plugin

\* For each document the plugins that define install are installed once, in order.
InstalledOncePerDocument ==
    \A d \in 0..docId : OnceInListOrder(PluginCallsWith("install", d), PluginsDefining("install"))

\* The plugins that define uninstall are uninstalled, with the functions object
\* of a document, once the document has changed or the component unmounted,
\* and not before.
UninstalledOnCleanup ==
    \A d \in 0..docId :
        IF d < docId \/ ~mounted
        THEN OnceInListOrder(PluginCallsWith("uninstall", d), PluginsDefining("uninstall"))
        ELSE PluginCallsWith("uninstall", d) = << >>

\* The calls of a document come before those of the next one, and its
\* installs before its uninstalls.
CleanupBeforeNextInstall ==
    \A k, l \in DOMAIN pluginLog :
        k < l =>
            /\ pluginLog[k].functions <= pluginLog[l].functions
            /\ (pluginLog[k].functions = pluginLog[l].functions /\ pluginLog[k].op = "uninstall")
                  => pluginLog[l].op = "uninstall"

\* Plugin i is installed first, and installs and uninstalls alternate.
Paired(i) ==
    \A k \in DOMAIN PluginCallsTo(i) :
        PluginCallsTo(i)[k].op = IF k % 2 = 1 THEN "install" ELSE "uninstall"

\* C12 (plugin install/uninstall pairing), as stated: per document every
\* plugin that defines install is installed once in list order, every plugin
\* that defines uninstall is uninstalled with the same functions object before
\* any install for the next document, so that no plugin is installed twice
\* without an uninstall in between or uninstalled without having been installed.
C12_PairingOfEveryPlugin ==
    /\ InstalledOncePerDocument
    /\ UninstalledOnCleanup
    /\ CleanupBeforeNextInstall
    /\ \A i \in 1..Len(plugins) : Paired(i)

\* C12, amended: the same, the pairing being that of the plugins that define
\* both install and uninstall.
C12_PairingOfFullPlugins ==
    /\ InstalledOncePerDocument
    /\ UninstalledOnCleanup
    /\ CleanupBeforeNextInstall
    /\ \A i \in PluginsDefining("install") \cap PluginsDefining("uninstall") : Paired(i)

\* Two plugins that define both hooks have gone through two document changes
\* and the unmounting.
C12_Witness ==
    /\ Len(plugins) = MaxPlugins
    /\ \A i \in 1..Len(plugins) : plugins[i].install /\ plugins[i].uninstall
    /\ docId = MaxDocChanges
    /\ ~mounted
    /\ Len(pluginLog) = 2 * MaxPlugins * (MaxDocChanges + 1)

\* The state after the hooks of the first k plugins, from the state s given.
RECURSIVE HookChain(_, _)
HookChain(k, s) ==
    IF k = 0 THEN s
    ELSE IF plugins[k].onViewerStateChange = "none" THEN HookChain(k - 1, s)
    ELSE onViewerStateChange(plugins[k], HookChain(k - 1, s))

\* C13 (setViewerState): setViewerState(s) hands s to the hook of the first
\* plugin that has one, each later hook gets the result of the one before, in
\* plugin-list order, and the last result is what getViewerState returns from
\* then on; with no plugin that has a hook it is s.
C13_SetViewerState ==
    [][\A pageIndex \in PluginPages :
          LET s == [stateRef EXCEPT !.pageIndex = pageIndex]
          IN  SetViewerStateOf(s) =>
                /\ getViewerState' = HookChain(Len(plugins), s)
                /\ (\A i \in 1..Len(plugins) : plugins[i].onViewerStateChange = "none")
                      => getViewerState' = s]_vars

\* The hook that goes to the first page ran before the one that goes to the
\* next page: the state stored is on page 1, not on page 0.
C13_Witness ==
    /\ Len(plugins) = 2
    /\ plugins[1].onViewerStateChange = "firstPage"
    /\ plugins[2].onViewerStateChange = "nextPage"
    /\ getViewerState.pageIndex = 1
    /\ ~rangeEffectPending

\* C14 (resize): a resize of the pages container while a special zoom level is
\* remembered marks every page as not rendered yet and applies the level again
\* (the level stays remembered, the scale is the one it gives in the new
\* container), also when that scale is the scale in effect; a resize while no
\* level is remembered changes nothing of the component's state.
C14_Resize ==
    [][handlePagesResize =>
          IF keepSpecialZoomLevel # "null"
          THEN /\ \A p \in DOMAIN renderQueue.renderStatus :
                     renderQueue'.renderStatus[p] = "NotRenderedYet"
               /\ keepSpecialZoomLevel' = keepSpecialZoomLevel
               /\ scale' = calculateScale(container', keepSpecialZoomLevel)
               /\ stateRef'.scale = scale'
          ELSE UNCHANGED <<renderQueue, renderPageIndex, renderQueueKey, scale,
                           stateRef, keepSpecialZoomLevel, rotation, pagesRotation,
                           currentScrollMode, currentPage>>]_vars

\* C15 (current page): a run of the range effect leaves the component's
\* current page and the viewer state's pageIndex equal to the virtualizer's
\* max-visibility index, and the render queue's range equal to
\* [startRange, endRange].
C15_CurrentPage ==
    [][RangeEffect =>
          /\ currentPage' = maxVisbilityIndexOf(virtualizer)
          /\ stateRef'.pageIndex = maxVisbilityIndexOf(virtualizer)
          /\ renderQueue'.startRange = startRangeOf(virtualizer)
          /\ renderQueue'.endRange = endRangeOf(virtualizer)]_vars

\* The range effect has run with the last page on screen: the page is the
\* current one and the range no longer starts at the first page.
C15_Witness ==
    /\ ~rangeEffectPending
    /\ virtualizer.startIndex = NumPages - 1
    /\ currentPage = NumPages - 1
    /\ stateRef.pageIndex = NumPages - 1
    /\ renderQueue.startRange = NumPages - 1 - NUM_OVERSCAN_PAGES
    /\ renderQueue.endRange = NumPages - 1

\* C16 (page change reported): every change of the current page to a page p
\* while the virtualizer is not smooth scrolling is reported by one
\* onPageChange call with currentPage = p, the initial page included when the
\* view comes back to it.
C16_PageChangeReported ==
    [][(currentPage' # currentPage /\ ~isSmoothScrolling')
          => emitted' = <<Call("onPageChange", currentPage', 0)>>]_vars

OnPageChangeCalls == {k \in DOMAIN emitted : emitted[k].fn = "onPageChange"}

\* C17 (onPageChange): onPageChange is not called while the virtualizer is
\* smooth scrolling, and the page a call reports is the viewer state's
\* pageIndex, or the initial page while the viewer state's pageIndex is -1.
C17_OnPageChange ==
    \A k \in OnPageChangeCalls :
        /\ ~isSmoothScrolling
        /\ \/ emitted[k].a = stateRef.pageIndex
           \/ (emitted[k].a = initialPage /\ stateRef.pageIndex = -1)

\* onPageChange has just reported the last page, which is the viewer state's
\* page, while no smooth scroll is in progress.
C17_Witness ==
    /\ ~isSmoothScrolling
    /\ ~rangeEffectPending
    /\ emitted = <<Call("onPageChange", NumPages - 1, 0)>>
    /\ stateRef.pageIndex = NumPages - 1
    /\ designated.by = "none"

\* C18 (jump to a destination): the scroll of a jump is computed from the
\* viewer state that is current when the scroll is issued, its scale for the
\* offset and its scroll mode for the axis, also when a zoom or a
\* switchScrollMode was applied between the call and the page's loading.
C18_JumpToDestination ==
    [][PageLoaded =>
          emitted'[Len(emitted')] =
              scrollToDestination(destination.pageIndex, stateRef'.scrollMode,
                                  destinationLeft(destination, stateRef'.scale),
                                  destinationTop(destination, stateRef'.scale))[1]]_vars

\* C19 (one rendering page): a page that has the rendering status is the page
\* renderPageIndex designates, so that at most one page is rendering, after
\* any interleaving of scroll, zoom, rotate, rotatePage, resize and
\* render-completed events.
C19_RenderingIsDesignated ==
    \A p \in DOMAIN renderQueue.renderStatus :
        RenderStatusOf(p) = "Rendering" => renderPageIndex = p

\* C20 (view and viewer state agree): with plugins that leave them alone, the
\* component's scale, rotation and scroll mode are the viewer state's after
\* any sequence of zoom, rotate, rotatePage, switchScrollMode and resize.
C20_ViewAgreesWithViewerState ==
    /\ scale = stateRef.scale
    /\ rotation = stateRef.rotation
    /\ currentScrollMode = stateRef.scrollMode

\* The view has been zoomed, rotated backward and switched to another scroll
\* mode, in a container that was resized.
C20_Witness ==
    /\ scale = 2 /\ stateRef.scale = 2
    /\ rotation = -90 /\ stateRef.rotation = -90
    /\ currentScrollMode = "Horizontal" /\ stateRef.scrollMode = "Horizontal"
    /\ container # [w |-> 1, h |-> 1]

\* C21 (render range): the range the effect of lines 401-429 gives the render
\* queue is the visible window [s, e] widened by NUM_OVERSCAN_PAGES pages on
\* each side and clamped to the document: start = max(s - 3, 0) and
\* end = min(e + 3, numPages - 1), so 0 <= start <= s, e <= end <= numPages - 1
\* and every page on screen is in the range.
C21_RenderRange ==
    [][RangeEffect =>
        LET s == virtualizer.startIndex
            e == virtualizer.endIndex
            start == renderQueue'.startRange
            end == renderQueue'.endRange
        IN  /\ 0 <= s /\ s <= e /\ e <= numPages - 1
            /\ start = (IF s - 3 > 0 THEN s - 3 ELSE 0)
            /\ end = (IF e + 3 < numPages - 1 THEN e + 3 ELSE numPages - 1)
            /\ 0 <= start /\ start <= s
            /\ e <= end /\ end <= numPages - 1
            /\ \A p \in Pages : virtualizer.visibility[p] > 0 => p \in start..end]_vars

\* The effect has set the range of a window of two pages in the middle of a
\* document: the range is widened by three pages on each side and clamped at
\* neither end, and a page of the document lies outside it on each side.
C21_Witness ==
    /\ ~rangeEffectPending
    /\ virtualizer.startIndex < virtualizer.endIndex
    /\ renderQueue.startRange = virtualizer.startIndex - 3
    /\ renderQueue.endRange = virtualizer.endIndex + 3
    /\ renderQueue.startRange > 0
    /\ renderQueue.endRange < numPages - 1

====
